---- MODULE Spec2Model ----
(***************************************************************************)
(* A model of fin_ai.py: the Streamlit chat script around a tool-calling   *)
(* agent, its six data-retrieval tools, the fetch helper and the           *)
(* transaction-volume aggregation.                                          *)
(*                                                                         *)
(* Spec    : the chat session (script runs, turns, tool calls, handlers).  *)
(* AggSpec : get_top_companies_by_tx_volume on bounded payloads.           *)
(***************************************************************************)
EXTENDS Integers, Sequences, FiniteSets, TLC

VARIABLES
    session_state,   \* st.session_state: the two API keys and 'messages'
    pc,              \* "awaiting" | "in_progress" | "exited"
    prompt,          \* the text returned by st.chat_input() in this run
    agent_input,     \* the dict passed to agent_executor.invoke
    displayed,       \* what this run rendered in the assistant chat message
    raised,          \* the exception that left agent_executor.invoke, or "none"
    http_status,     \* status of the last fetch response of this turn, 0 if none
    last_call,       \* the last tool invocation of this turn
    ncalls,          \* tool invocations made by the agent in this turn
    turns,           \* turns submitted in this session
    data_dict,       \* get_top_companies_by_tx_volume: the parsed payload
    top_n,           \* get_top_companies_by_tx_volume: its top_n argument
    aggregated_data, \* get_top_companies_by_tx_volume: the accumulators
    sorted_data,     \* get_top_companies_by_tx_volume: the returned list
    apc              \* get_top_companies_by_tx_volume: position in the body

chatVars == <<session_state, pc, prompt, agent_input, displayed, raised,
              http_status, last_call, ncalls, turns>>
aggVars == <<data_dict, top_n, aggregated_data, sorted_data, apc>>
vars == <<session_state, pc, prompt, agent_input, displayed, raised,
          http_status, last_call, ncalls, turns,
          data_dict, top_n, aggregated_data, sorted_data, apc>>

(***************************************************************************)
(* Bounds of the model.                                                    *)
(***************************************************************************)
MaxTurns == 2
MaxCalls == 2
MaxDates == 2
MaxRecords == 3
MaxTopN == 3

Min(a, b) == IF a < b THEN a ELSE b

Range(s) == {s[i] : i \in DOMAIN s}

(***************************************************************************)
(* Inputs of the chat session.                                             *)
(***************************************************************************)
Prompts == {"q1", "q2"}
Answers == {"a1"}
ApiKeys == {"", "key"}
Stocks == {<<"B", "B", "R", "I">>, <<"B", "R", "I">>}
SectionInputs == {"overview", "summary"}
TopNInputs == {-1, 0, 5}
SubSectors == {"banks"}

Responses ==
    {[net |-> "down", status |-> 0, body |-> "none"]}
    \cup {[net |-> "up", status |-> 200, body |-> b] :
            b \in {"payload", "other_json", "not_json"}}
    \cup {[net |-> "up", status |-> s, body |-> "other_json"] :
            s \in {404, 429, 500}}


(***************************************************************************)
(* st.session_state and the top of the script, which every run executes.   *)
(***************************************************************************)
EnsureKey(ss, k, v) ==
    IF k \in DOMAIN ss THEN ss
    ELSE [x \in DOMAIN ss \cup {k} |-> IF x = k THEN v ELSE ss[x]]

ScriptTopReset(ss) ==
    [EnsureKey(EnsureKey(EnsureKey(ss, "sectors_api_key", ""),
                         "groq_api_key", ""),
               "messages", <<>>) EXCEPT !["messages"] = <<>>]

ScriptTop(ss) ==
    EnsureKey(EnsureKey(EnsureKey(ss, "sectors_api_key", ""),
                        "groq_api_key", ""),
              "messages", <<>>)

messages == session_state["messages"]

ChatMessage(role, content) == [role |-> role, content |-> content]

(***************************************************************************)
(* Exceptions: the classes each one is an instance of.                     *)
(***************************************************************************)
Bases(exc) ==
    CASE exc = "HTTPError" ->
             {"HTTPError", "RequestException", "Exception", "BaseException"}
      [] exc \in {"ConnectionError", "JSONDecodeError"} ->
             {exc, "RequestException", "Exception", "BaseException"}
      [] exc = "SystemExit" -> {"SystemExit", "BaseException"}
      [] OTHER -> {exc, "Exception", "BaseException"}

(***************************************************************************)
(* The fetch helper.  resp is what the remote API answers to the GET.      *)
(***************************************************************************)
HTTPErrorStatus(status) == status >= 400 /\ status < 600

retrieve_from_endpoint(resp) ==
    IF resp.net = "down"
    THEN [exc |-> "ConnectionError", status |-> 0]
    ELSE IF HTTPErrorStatus(resp.status)
    THEN [exc |-> "SystemExit", status |-> resp.status]
    ELSE IF resp.body = "not_json"
    THEN [exc |-> "JSONDecodeError", status |-> resp.status]
    ELSE [exc |-> "none", status |-> resp.status]

(***************************************************************************)
(* The tools.  Each returns the exception it raises ("none" when it        *)
(* returns), the status of the response it fetched, the number of calls    *)
(* it made to the fetch helper and whether it reached the aggregation.     *)
(***************************************************************************)
valid_sections ==
    {"overview", "valuation", "future", "peers", "financials",
     "dividend", "management", "ownership"}

Rejected ==
    [exc |-> "AssertionError", status |-> 0, fetches |-> 0, aggregated |-> FALSE]

Fetched(resp) ==
    LET r == retrieve_from_endpoint(resp)
    IN  [exc |-> r.exc, status |-> r.status, fetches |-> 1, aggregated |-> FALSE]

get_company_report_unchecked(stock, sections, resp) ==
    IF sections \notin valid_sections THEN Rejected
    ELSE Fetched(resp)

get_company_report(stock, sections, resp) ==
    IF sections \notin valid_sections THEN Rejected
    ELSE IF Len(stock) # 4 THEN Rejected
    ELSE Fetched(resp)

get_top_companies_by_tx_volume(n, resp) ==
    IF ~(n > 0) THEN Rejected
    ELSE LET r == Fetched(resp)
         IN  IF r.exc # "none" THEN r
             ELSE IF resp.body # "payload"
             THEN [r EXCEPT !.exc = "KeyError", !.aggregated = TRUE]
             ELSE [r EXCEPT !.aggregated = TRUE]

get_daily_tx(stock, resp) == Fetched(resp)

get_company_performance_ipo(stock, resp) == Fetched(resp)

get_companies_by_subsector(sub_sector, resp) == Fetched(resp)

get_subsector_report(sector, section, resp) == Fetched(resp)

\* Every function of the module decorated with @tool.
DataTools ==
    {"get_company_report", "get_top_companies_by_tx_volume", "get_daily_tx",
     "get_company_performance_ipo", "get_companies_by_subsector",
     "get_subsector_report"}

\* The list handed to create_tool_calling_agent and AgentExecutor.
tools ==
    <<"get_company_report", "get_top_companies_by_tx_volume", "get_daily_tx",
      "get_company_performance_ipo", "get_companies_by_subsector">>

ToolArgs ==
    [stock : Stocks, sections : SectionInputs, top_n : TopNInputs,
     sub_sector : SubSectors]

NoStock == <<>>

\* The arguments a tool reads; the others are blanked.
ArgsOf(t, a) ==
    CASE t = "get_company_report" ->
             [stock |-> a.stock, sections |-> a.sections, top_n |-> 0, sub_sector |-> ""]
      [] t = "get_top_companies_by_tx_volume" ->
             [stock |-> NoStock, sections |-> "", top_n |-> a.top_n, sub_sector |-> ""]
      [] t \in {"get_daily_tx", "get_company_performance_ipo"} ->
             [stock |-> a.stock, sections |-> "", top_n |-> 0, sub_sector |-> ""]
      [] t = "get_companies_by_subsector" ->
             [stock |-> NoStock, sections |-> "", top_n |-> 0, sub_sector |-> a.sub_sector]
      [] OTHER ->
             [stock |-> NoStock, sections |-> a.sections, top_n |-> 0, sub_sector |-> a.sub_sector]

RunTool(t, a, resp) ==
    CASE t = "get_company_report" -> get_company_report(a.stock, a.sections, resp)
      [] t = "get_top_companies_by_tx_volume" -> get_top_companies_by_tx_volume(a.top_n, resp)
      [] t = "get_daily_tx" -> get_daily_tx(a.stock, resp)
      [] t = "get_company_performance_ipo" -> get_company_performance_ipo(a.stock, resp)
      [] t = "get_companies_by_subsector" -> get_companies_by_subsector(a.sub_sector, resp)
      [] OTHER -> get_subsector_report(a.sub_sector, a.sections, resp)

NoCall ==
    [tool |-> "none",
     args |-> [stock |-> NoStock, sections |-> "", top_n |-> 0, sub_sector |-> ""],
     exc |-> "none", fetches |-> 0, aggregated |-> FALSE]

(***************************************************************************)
(* The chat session loop.                                                  *)
(***************************************************************************)
\* The argument of agent_executor.invoke for user text p and transcript ms.
InvokeInputWithHistory(p, ms) ==
    [input |-> p, chat_history |-> SubSeq(ms, 1, Len(ms) - 1)]

InvokeInput(p, ms) == [input |-> p]

NoInput == [input |-> ""]

\* The except clauses after invoke, in order; "uncaught" when none matches.
Handle(exc, status) ==
    IF "HTTPError" \in Bases(exc)
    THEN IF status = 429 THEN "usage_limit" ELSE "http_error"
    ELSE IF "RequestException" \in Bases(exc) THEN "network_issue"
    ELSE IF "Exception" \in Bases(exc) THEN "unexpected_error"
    ELSE "uncaught"

ErrorDisplays == {"usage_limit", "http_error", "network_issue", "unexpected_error"}

\* An exception leaves agent_executor.invoke.  An exception no clause
\* catches leaves the script: nothing is rendered, and the script thread
\* either ends for good or the host runs the script again on the next
\* interaction.
TurnFails(exc, status) ==
    /\ raised' = exc
    /\ LET d == Handle(exc, status)
       IN  IF d = "uncaught"
           THEN /\ displayed' = "none"
                /\ pc' \in {"exited", "awaiting"}
           ELSE /\ displayed' = d
                /\ pc' = "awaiting"
    /\ UNCHANGED session_state

ChatInit ==
    /\ session_state = ScriptTop(<<>>)
    /\ pc = "awaiting"
    /\ prompt = ""
    /\ agent_input = NoInput
    /\ displayed = "none"
    /\ raised = "none"
    /\ http_status = 0
    /\ last_call = NoCall
    /\ ncalls = 0
    /\ turns = 0

\* A run of the script in which st.chat_input() returns nothing: the user
\* edited a key in the sidebar or pressed the button.
Rerun ==
    /\ pc = "awaiting"
    /\ \E k1 \in ApiKeys, k2 \in ApiKeys :
         session_state' = ScriptTop([session_state EXCEPT
                                       !["sectors_api_key"] = k1,
                                       !["groq_api_key"] = k2])
    /\ prompt' = ""
    /\ agent_input' = NoInput
    /\ displayed' = "none"
    /\ raised' = "none"
    /\ http_status' = 0
    /\ last_call' = NoCall
    /\ ncalls' = 0
    /\ UNCHANGED <<pc, turns>>
    /\ UNCHANGED aggVars

\* A run of the script in which st.chat_input() returns p, up to the call
\* of agent_executor.invoke.
SubmitTurn ==
    /\ pc = "awaiting"
    /\ turns < MaxTurns
    /\ \E p \in Prompts :
         LET ss == ScriptTop(session_state)
             ms == Append(ss["messages"], ChatMessage("user", p))
         IN  /\ session_state' = [ss EXCEPT !["messages"] = ms]
             /\ prompt' = p
             /\ agent_input' = InvokeInput(p, ms)
    /\ pc' = "in_progress"
    /\ displayed' = "none"
    /\ raised' = "none"
    /\ http_status' = 0
    /\ last_call' = NoCall
    /\ ncalls' = 0
    /\ turns' = turns + 1
    /\ UNCHANGED aggVars

\* The agent invokes one of the tools it was given.  A tool that raises
\* ends invoke with that exception.
ToolCall ==
    /\ pc = "in_progress"
    /\ ncalls < MaxCalls
    /\ \E t \in Range(tools), a0 \in ToolArgs, resp \in Responses :
         LET a == ArgsOf(t, a0)
             r == RunTool(t, a, resp)
         IN  /\ last_call' = [tool |-> t, args |-> a, exc |-> r.exc,
                              fetches |-> r.fetches, aggregated |-> r.aggregated]
             /\ http_status' = IF r.fetches > 0 THEN r.status ELSE http_status
             /\ IF r.exc = "none"
                THEN UNCHANGED <<session_state, pc, displayed, raised>>
                ELSE TurnFails(r.exc, r.status)
    /\ ncalls' = ncalls + 1
    /\ UNCHANGED <<prompt, agent_input, turns>>
    /\ UNCHANGED aggVars

\* invoke returns the agent's answer.
AgentFinish ==
    /\ pc = "in_progress"
    /\ \E answer \in Answers :
         session_state' = [session_state EXCEPT
                             !["messages"] = Append(@, ChatMessage("assistant", answer))]
    /\ displayed' = "success"
    /\ pc' = "awaiting"
    /\ UNCHANGED <<prompt, agent_input, raised, http_status, last_call, ncalls, turns>>
    /\ UNCHANGED aggVars

\* The model provider's client raises inside invoke.
AgentError ==
    /\ pc = "in_progress"
    /\ TurnFails("LLMError", 0)
    /\ UNCHANGED <<prompt, agent_input, http_status, last_call, ncalls, turns>>
    /\ UNCHANGED aggVars

AggIdle ==
    /\ data_dict = <<>>
    /\ top_n = 1
    /\ aggregated_data = <<>>
    /\ sorted_data = <<>>
    /\ apc = "idle"

Init == ChatInit /\ AggIdle

Next == Rerun \/ SubmitTurn \/ ToolCall \/ AgentFinish \/ AgentError

Spec == Init /\ [][Next]_vars


(***************************************************************************)
(* get_top_companies_by_tx_volume after the fetch: the aggregation.        *)
(*                                                                         *)
(* The payload is the parsed JSON object, a dict from date to the list of  *)
(* that date's records, in the order of its keys: a sequence of            *)
(* [date, records].  aggregated_data is the dict of accumulators in        *)
(* insertion order.  Volumes and prices are integers; a price total        *)
(* divided by a count is the exact fraction <<numerator, denominator>>     *)
(* in lowest terms.                                                        *)
(***************************************************************************)
TradeRecord(symbol, company_name, volume, price) ==
    [symbol |-> symbol, company_name |-> company_name,
     volume |-> volume, price |-> price]

TradeRecords ==
    {TradeRecord("AAAA", "Alpha", 100, 10),
     TradeRecord("AAAA", "Alpha", 200, 12),
     TradeRecord("BBBB", "Beta", 50, 20),
     TradeRecord("CCCC", "Gamma", 100, 30)}

Dates == <<"2024-01-01", "2024-01-02", "2024-01-03", "2024-01-04">>

\* The records of a payload in the order the loops visit them.
RecordSeqs == UNION {[1..n -> TradeRecords] : n \in 0..MaxRecords}

\* The ways to cut len records into n consecutive dates (a date may be empty).
Cuts(len, n) ==
    {c \in [0..n -> 0..len] :
        c[0] = 0 /\ c[n] = len /\ \A i \in 1..n : c[i - 1] <= c[i]}

PayloadOf(rs, c, n) ==
    [i \in 1..n |->
        [date |-> Dates[i], records |-> SubSeq(rs, c[i - 1] + 1, c[i])]]

\* The payloads of at most MaxDates dates and MaxRecords records in all.
Payloads ==
    {<<>>} \cup
    UNION {{PayloadOf(rs, c, n) : c \in Cuts(Len(rs), n)} :
             rs \in RecordSeqs, n \in 1..Min(MaxDates, Len(Dates))}

RECURSIVE Gcd(_, _)
Gcd(a, b) == IF b = 0 THEN a ELSE Gcd(b, a % b)

\* Python's a / b for b > 0.
TrueDiv(a, b) == LET g == Gcd(a, b) IN <<a \div g, b \div g>>

IndexOf(agg, symbol) ==
    IF \E i \in DOMAIN agg : agg[i].symbol = symbol
    THEN CHOOSE i \in DOMAIN agg : agg[i].symbol = symbol
    ELSE 0

NewAccumulator(record) ==
    [symbol |-> record.symbol, volume |-> record.volume,
     avg_price |-> record.price, count |-> 1,
     company_name |-> record.company_name]

AccumulateNoMerge(agg, record) == Append(agg, NewAccumulator(record))

\* The body of the inner loop for one record.
Accumulate(agg, record) ==
    LET i == IndexOf(agg, record.symbol)
    IN  IF i # 0
        THEN [agg EXCEPT ![i].volume = @ + record.volume,
                         ![i].avg_price = @ + record.price,
                         ![i].count = @ + 1]
        ELSE Append(agg, NewAccumulator(record))

RECURSIVE AccumulateList(_, _)
AccumulateList(agg, records) ==
    IF records = <<>> THEN agg
    ELSE AccumulateList(Accumulate(agg, Head(records)), Tail(records))

\* The two nested loops over the payload.
RECURSIVE AccumulateAll(_, _)
AccumulateAll(agg, payload) ==
    IF payload = <<>> THEN agg
    ELSE AccumulateAll(AccumulateList(agg, Head(payload).records), Tail(payload))

AverageSkipped(agg) ==
    [i \in DOMAIN agg |-> [agg[i] EXCEPT !.avg_price = TrueDiv(@, 1)]]

\* The loop that replaces each price total by the average.
Average(agg) ==
    [i \in DOMAIN agg |->
        [agg[i] EXCEPT !.avg_price = TrueDiv(@, agg[i].count)]]

\* sorted(..., key=volume, reverse=True): stable, descending.
RECURSIVE InsertDesc(_, _)
InsertDesc(sorted, x) ==
    IF sorted = <<>> THEN <<x>>
    ELSE IF Head(sorted).volume >= x.volume
         THEN <<Head(sorted)>> \o InsertDesc(Tail(sorted), x)
         ELSE <<x>> \o sorted

RECURSIVE SortDesc(_)
SortDesc(s) ==
    IF s = <<>> THEN <<>>
    ELSE InsertDesc(SortDesc(SubSeq(s, 1, Len(s) - 1)), s[Len(s)])

RECURSIVE Reverse(_)
Reverse(s) == IF s = <<>> THEN <<>> ELSE Append(Reverse(Tail(s)), Head(s))

SortTopAscending(agg, n) ==
    LET srt == Reverse(SortDesc(agg)) IN SubSeq(srt, 1, Min(n, Len(srt)))

\* The sort and the slice [:top_n], for top_n > 0.
SortTop(agg, n) ==
    LET srt == SortDesc(agg) IN SubSeq(srt, 1, Min(n, Len(srt)))

AggInit ==
    /\ data_dict \in Payloads
    /\ top_n \in 1..MaxTopN
    /\ aggregated_data = <<>>
    /\ sorted_data = <<>>
    /\ apc = "aggregate"

AggAccumulate ==
    /\ apc = "aggregate"
    /\ aggregated_data' = AccumulateAll(<<>>, data_dict)
    /\ apc' = "average"
    /\ UNCHANGED <<data_dict, top_n, sorted_data>>
    /\ UNCHANGED chatVars

AggAverage ==
    /\ apc = "average"
    /\ aggregated_data' = Average(aggregated_data)
    /\ apc' = "sort"
    /\ UNCHANGED <<data_dict, top_n, sorted_data>>
    /\ UNCHANGED chatVars

AggSort ==
    /\ apc = "sort"
    /\ sorted_data' = SortTop(aggregated_data, top_n)
    /\ apc' = "returned"
    /\ UNCHANGED <<data_dict, top_n, aggregated_data>>
    /\ UNCHANGED chatVars

AggNext == AggAccumulate \/ AggAverage \/ AggSort

AggStart == ChatInit /\ AggInit

AggSpec == AggStart /\ [][AggNext]_vars


(***************************************************************************)
(* Properties of the chat session (checked under Spec).                    *)
(***************************************************************************)
TurnFailed == raised # "none"

UserMessageIsLast ==
    /\ Len(messages) > 0
    /\ messages[Len(messages)] = ChatMessage("user", prompt)

\* C1: after a turn whose agent invocation failed the error is displayed,
\* no assistant entry was appended and the last transcript entry is the
\* user's message of that turn.
C1_FailedTurnShowsErrorKeepsUserMessage ==
    TurnFailed => (displayed \in ErrorDisplays /\ UserMessageIsLast)

\* C2: a non-2xx response received by retrieve_from_endpoint during a turn
\* is rendered on that turn: 429 as the usage-limit message, every other
\* status as the HTTP error message.
C2_HttpErrorIsRendered ==
    (pc # "in_progress" /\ HTTPErrorStatus(http_status)) =>
        displayed = (IF http_status = 429 THEN "usage_limit" ELSE "http_error")

\* C3: after every failed turn the chat loop awaits user input again, with
\* the transcript intact.
C3_FailedTurnReturnsToAwaiting ==
    TurnFailed => (pc = "awaiting" /\ UserMessageIsLast)

ViolatesPrecondition(c) ==
    \/ /\ c.tool = "get_company_report"
       /\ (Len(c.args.stock) # 4 \/ c.args.sections \notin valid_sections)
    \/ /\ c.tool = "get_top_companies_by_tx_volume"
       /\ c.args.top_n <= 0

\* C7: a tool call whose input violates a precondition (symbol length not
\* 4, section outside the eight names, top_n <= 0) fails with an assertion
\* error, makes no call to the fetch helper and does not aggregate.
C7_RejectedBeforeFetch ==
    ViolatesPrecondition(last_call) =>
        /\ last_call.exc = "AssertionError"
        /\ last_call.fetches = 0
        /\ ~last_call.aggregated
        /\ raised = "AssertionError"

C7_Witness ==
    /\ last_call.tool = "get_company_report"
    /\ Len(last_call.args.stock) # 4
    /\ last_call.args.sections \in valid_sections
    /\ last_call.exc = "AssertionError"

EarlierMessages == SubSeq(messages, 1, Len(messages) - 1)

C9_AllSixToolsRegistered ==
    pc = "in_progress" => DataTools \subseteq Range(tools)

C10_Alternation ==
    /\ \A i \in DOMAIN messages :
         messages[i].role = "assistant" => (i > 1 /\ messages[i - 1].role = "user")
    /\ Cardinality({i \in DOMAIN messages : messages[i].role = "assistant"})
         <= Cardinality({i \in DOMAIN messages : messages[i].role = "user"})

C10_Step ==
    \/ messages' = messages
    \/ /\ pc = "awaiting"
       /\ pc' = "in_progress"
       /\ \E p \in Prompts : messages' = Append(messages, ChatMessage("user", p))
    \/ /\ pc = "in_progress"
       /\ pc' = "awaiting"
       /\ messages[Len(messages)].role = "user"
       /\ \E a \in Answers : messages' = Append(messages, ChatMessage("assistant", a))

\* C10: the transcript is append-only: a turn appends one user message and
\* then at most one assistant message, earlier entries never change, every
\* assistant message directly follows a user message, and there are never
\* more assistant than user messages.
C10_AppendOnly == []C10_Alternation /\ [][C10_Step]_vars

C10_Witness ==
    /\ Len(messages) = 3
    /\ messages[1].role = "user"
    /\ messages[2].role = "assistant"
    /\ messages[3].role = "user"
    /\ raised # "none"

(***************************************************************************)
(* Properties of the aggregation (checked under AggSpec).                  *)
(***************************************************************************)
RECURSIVE AllRecords(_)
AllRecords(payload) ==
    IF payload = <<>> THEN <<>>
    ELSE Head(payload).records \o AllRecords(Tail(payload))

SymbolsIn(payload) == {r.symbol : r \in Range(AllRecords(payload))}

RECURSIVE SumOver(_, _, _)
SumOver(records, symbol, field) ==
    IF records = <<>> THEN 0
    ELSE (IF Head(records).symbol = symbol THEN Head(records)[field] ELSE 0)
         + SumOver(Tail(records), symbol, field)

TotalVolume(payload, symbol) == SumOver(AllRecords(payload), symbol, "volume")
PriceSum(payload, symbol) == SumOver(AllRecords(payload), symbol, "price")
RecordCount(payload, symbol) ==
    Cardinality({i \in DOMAIN AllRecords(payload) : AllRecords(payload)[i].symbol = symbol})
DateCount(payload, symbol) ==
    Cardinality({d \in DOMAIN payload :
                   \E r \in Range(payload[d].records) : r.symbol = symbol})

Returned == apc = "returned"

\* C4: the output has at most one entry per symbol and as many entries as
\* min(top_n, number of distinct symbols of the payload); a payload without
\* records gives the empty list.
C4_LengthAndDistinct ==
    Returned =>
        /\ Len(sorted_data) = Min(top_n, Cardinality(SymbolsIn(data_dict)))
        /\ \A i, j \in DOMAIN sorted_data :
             i # j => sorted_data[i].symbol # sorted_data[j].symbol
        /\ (AllRecords(data_dict) = <<>> => sorted_data = <<>>)

C4_Witness ==
    /\ Returned
    /\ Cardinality(SymbolsIn(data_dict)) > top_n
    /\ Len(sorted_data) = top_n
    /\ \E s \in SymbolsIn(data_dict) : RecordCount(data_dict, s) > 1

\* C5: the output is in descending order of total volume, each entry's
\* volume is the sum of the volumes of all records of its symbol, and no
\* symbol left out has a larger total than one that is included.
C5_SortedByTotalVolume ==
    Returned =>
        /\ \A i, j \in DOMAIN sorted_data :
             i < j => sorted_data[i].volume >= sorted_data[j].volume
        /\ \A i \in DOMAIN sorted_data :
             sorted_data[i].volume = TotalVolume(data_dict, sorted_data[i].symbol)
        /\ \A s \in SymbolsIn(data_dict) :
             (\A i \in DOMAIN sorted_data : sorted_data[i].symbol # s) =>
                 \A i \in DOMAIN sorted_data :
                    TotalVolume(data_dict, s) <= sorted_data[i].volume

C5_Witness ==
    /\ Returned
    /\ Len(sorted_data) = 2
    /\ sorted_data[1].volume > sorted_data[2].volume
    /\ sorted_data[1].symbol # data_dict[1].records[1].symbol
    /\ \E s \in SymbolsIn(data_dict) :
         /\ \A i \in DOMAIN sorted_data : sorted_data[i].symbol # s
         /\ TotalVolume(data_dict, s) < sorted_data[2].volume

\* C6 as claimed: count is the number of dates on which the symbol appears
\* and avg_price is the price total over that number of dates.
C6_CountIsNumberOfDates ==
    Returned =>
        \A i \in DOMAIN sorted_data :
            LET e == sorted_data[i]
                K == DateCount(data_dict, e.symbol)
            IN  /\ e.count = K
                /\ e.avg_price[1] * K = PriceSum(data_dict, e.symbol) * e.avg_price[2]

\* C6 amended: count is the number of records of the symbol in the payload
\* (every occurrence, also repeated ones within one date) and avg_price is
\* the unweighted mean of those records' prices, whatever the volumes; for
\* a single record it is that record's price.
C6_UnweightedMeanOverRecords ==
    Returned =>
        \A i \in DOMAIN sorted_data :
            LET e == sorted_data[i]
                K == RecordCount(data_dict, e.symbol)
            IN  /\ e.count = K
                /\ e.avg_price[2] > 0
                /\ e.avg_price[1] * K = PriceSum(data_dict, e.symbol) * e.avg_price[2]
                /\ (K = 1 => \E r \in Range(AllRecords(data_dict)) :
                                r.symbol = e.symbol /\ e.avg_price = <<r.price, 1>>)

C6_Witness ==
    /\ Returned
    /\ \E i \in DOMAIN sorted_data :
         /\ sorted_data[i].symbol = "AAAA"
         /\ sorted_data[i].count = 2
         /\ sorted_data[i].volume = 300
         /\ sorted_data[i].avg_price = <<11, 1>>
         /\ DateCount(data_dict, "AAAA") = 1

====
